---- MODULE Spec2Model ----
(***************************************************************************)
(* A model of the playfield simulation of src/game.py: the grid, the       *)
(* falling piece, line-clear detection with its timed animation, scoring,  *)
(* random-block injection, and the keyboard commands of handle_events.     *)
(*                                                                         *)
(* The game object's fields are the variables.  Every method is an         *)
(* operator from a record of the fields to a record of the fields, so that *)
(* a handler that calls other methods (hard_drop -> move_piece ->          *)
(* place_piece -> clear_lines -> spawn_new_piece) is one step.  The field  *)
(* "log" of such a record is not a field of the program: it lists the      *)
(* commits, detections, compactions, spawns and injections of the handler  *)
(* that is running, each with the fields before and after it.              *)
(*                                                                         *)
(* Colours are modelled by the index of the tetromino kind plus one (the   *)
(* program stores RGB tuples, all of them truthy; 0 is the empty cell).    *)
(* Times are whole milliseconds.  A particle is modelled by its life in    *)
(* hundredths (the program subtracts 0.02 from a float, whose rounding may  *)
(* keep a particle one update longer); its position, velocity, colour and  *)
(* size are presentation.                                                  *)
(***************************************************************************)
EXTENDS Integers, Sequences, FiniteSets, TLC

VARIABLES grid, current_piece, next_piece, score, lines_cleared, level,
          game_over, paused, fall_time, fall_speed, random_block_time,
          random_block_interval, random_blocks_enabled, lines_clearing,
          clear_animation_time, particles,
          last, budget, watch

fields == <<grid, current_piece, next_piece, score, lines_cleared, level,
            game_over, paused, fall_time, fall_speed, random_block_time,
            random_block_interval, random_blocks_enabled, lines_clearing,
            clear_animation_time, particles>>

vars == <<fields, last, budget, watch>>

----------------------------------------------------------------------------
(* Program constants *)

GRID_WIDTH == 10

GRID_HEIGHT == 20

CLEAR_ANIMATION_DURATION == 800

BASE_FALL_SPEED == 1000

MIN_FALL_SPEED == 100

FALL_SPEED_STEP == 100

LINES_PER_LEVEL == 10

LINE_SCORE == 100

PARTICLES_PER_BLOCK == 5

PARTICLE_LIFE == 100

PARTICLE_DECAY == 2

MIN_RANDOM_INTERVAL == 15000

MAX_RANDOM_INTERVAL == 30000

TETROMINOS ==
  << << <<1, 1, 1, 1>> >>,
     << <<1, 1>>, <<1, 1>> >>,
     << <<1, 1, 1>>, <<0, 1, 0>> >>,
     << <<1, 1, 1>>, <<1, 0, 0>> >>,
     << <<1, 1, 1>>, <<0, 0, 1>> >>,
     << <<1, 1, 0>>, <<0, 1, 1>> >>,
     << <<0, 1, 1>>, <<1, 1, 0>> >> >>

(* TETROMINO_COLORS[shape_idx], a non-zero tag per kind *)
TETROMINO_COLORS == [i \in 1..7 |-> i]

----------------------------------------------------------------------------
(* Bounds of the model *)

(* pieces committed in one run *)
MaxPlacements == 1

(* columns the player moves a piece away from the column it spawned in *)
MaxShift == 1

(* cells of the cleared rows that emit particles (each of them may) *)
MaxEmit == 1

(* calls of update that run with random blocks enabled in one run *)
MaxRandomTicks == 2

(* kinds drawn by random.randint(0, 6): I and O *)
Kinds == {0, 1}

(* elapsed times handed to update *)
DTs == {400, 1000}

(* values random.randint(15000, 30000) is drawn from *)
Intervals == {MIN_RANDOM_INTERVAL, MAX_RANDOM_INTERVAL}

(* columns random.choice(valid_positions) is drawn from, when they are valid:
   the open column, a column of the stack, a column of the wells *)
BlockColumns == {0, 1, 4}

(* colours random.choice(TETROMINO_COLORS) is drawn from *)
BlockColors == {2}

----------------------------------------------------------------------------
(* Tetromino *)

None == [x |-> 0, y |-> 0, shape |-> << >>, color |-> 0]

Tetromino(px, py, shape_idx) ==
  [x |-> px, y |-> py, shape |-> TETROMINOS[shape_idx + 1],
   color |-> TETROMINO_COLORS[shape_idx + 1]]

(* a rotation that transposes: rotated[c][r] = shape[r][c] *)
rotate_transposed(shape) ==
  [c \in 1..Len(shape[1]) |-> [r \in 1..Len(shape) |-> shape[r][c]]]

(* Tetromino.rotate: rotated[c][rows - 1 - r] = shape[r][c] *)
rotate(shape) ==
  LET rows == Len(shape)
      cols == Len(shape[1])
  IN  [c \in 1..cols |-> [j \in 1..rows |-> shape[rows - j + 1][c]]]

(* Tetromino.get_positions, as the set of the listed (x, y) *)
get_positions(p) ==
  IF p.shape = << >> THEN {}
  ELSE { <<p.x + c - 1, p.y + r - 1>> :
           <<r, c>> \in { rc \in (1..Len(p.shape)) \X (1..Len(p.shape[1])) :
                           p.shape[rc[1]][rc[2]] # 0 } }

----------------------------------------------------------------------------
(* Grid helpers *)

EmptyRow == [i \in 1..GRID_WIDTH |-> 0]

EmptyGrid == [i \in 1..GRID_HEIGHT |-> EmptyRow]

Cell(g, x, y) == g[y + 1][x + 1]

SetCell(g, x, y, v) == [g EXCEPT ![y + 1][x + 1] = v]

(* all(self.grid[y]) *)
RowFull(g, y) == \A x \in 0..(GRID_WIDTH - 1) : Cell(g, x, y) # 0

(* a validity test whose floor is one row too high *)
is_valid_position_low_floor(g, p) ==
  \A pos \in get_positions(p) :
     ~ ( \/ pos[1] < 0
         \/ pos[1] >= GRID_WIDTH
         \/ pos[2] >= GRID_HEIGHT - 1
         \/ (pos[2] >= 0 /\ Cell(g, pos[1], pos[2]) # 0) )

(* TetrisGame.is_valid_position *)
is_valid_position(g, p) ==
  \A pos \in get_positions(p) :
     ~ ( \/ pos[1] < 0
         \/ pos[1] >= GRID_WIDTH
         \/ pos[2] >= GRID_HEIGHT
         \/ (pos[2] >= 0 /\ Cell(g, pos[1], pos[2]) # 0) )

----------------------------------------------------------------------------
(* The fields of a TetrisGame as a record, and the log of a handler *)

Core(s) ==
  [grid |-> s.grid, current_piece |-> s.current_piece,
   next_piece |-> s.next_piece, score |-> s.score,
   lines_cleared |-> s.lines_cleared, level |-> s.level,
   game_over |-> s.game_over, paused |-> s.paused,
   fall_time |-> s.fall_time, fall_speed |-> s.fall_speed,
   random_block_time |-> s.random_block_time,
   random_block_interval |-> s.random_block_interval,
   random_blocks_enabled |-> s.random_blocks_enabled,
   lines_clearing |-> s.lines_clearing,
   clear_animation_time |-> s.clear_animation_time,
   particles |-> s.particles]

(* the element of a set of one element: the result of statements run one
   after the other, each computed once from the result before it *)
Only(S) == CHOOSE r \in S : TRUE

(* s2 is s after the step named ev: the step is added to the log *)
Logged(s, ev, s2) ==
  Only({ [p[2] EXCEPT !.log = Append(p[1].log, [ev |-> ev, pre |-> Core(p[1]),
                                                 post |-> Core(p[2])])] :
           p \in {<<s, s2>>} })

HasEv(log, ev) == \E i \in 1..Len(log) : log[i].ev = ev

CountEv(log, ev) == Cardinality({i \in 1..Len(log) : log[i].ev = ev})

(* the random draws of one handler: the kind of a spawned piece, the number
   of cleared cells that emit particles, the position and colour of an
   injected block, the next injection interval *)
Rnd(i, e, p, c, iv) == [idx |-> i, emit |-> e, pos |-> p, color |-> c, interval |-> iv]

Rnd0 == Rnd(0, 0, <<0, 0>>, 1, MIN_RANDOM_INTERVAL)

(* the draws of __init__: two kinds and the first interval *)
RndInit(a, b, iv) == [idx |-> a, idx2 |-> b, interval |-> iv]

----------------------------------------------------------------------------
(* TetrisGame *)

(* a spawn that does not test the position of the promoted piece *)
spawn_new_piece_untested(s, shape_idx) ==
  IF s.next_piece = None
  THEN [s EXCEPT !.next_piece = Tetromino(GRID_WIDTH \div 2 - 1, 0, shape_idx)]
  ELSE Logged(s, "spawn",
              [s EXCEPT !.current_piece = s.next_piece,
                        !.next_piece = Tetromino(GRID_WIDTH \div 2 - 1, 0, shape_idx)])

(* TetrisGame.spawn_new_piece *)
spawn_new_piece(s, shape_idx) ==
  IF s.next_piece = None
  THEN [s EXCEPT !.next_piece = Tetromino(GRID_WIDTH \div 2 - 1, 0, shape_idx)]
  ELSE LET s1 == [s EXCEPT !.current_piece = s.next_piece,
                           !.next_piece = Tetromino(GRID_WIDTH \div 2 - 1, 0, shape_idx)]
           s2 == IF ~ is_valid_position(s1.grid, s1.current_piece)
                 THEN [s1 EXCEPT !.game_over = TRUE]
                 ELSE s1
       IN  Logged(s, "spawn", s2)

(* sorted(seq, reverse=True) *)
RECURSIVE SortedDesc(_)
SortedDesc(seq) ==
  IF seq = << >> THEN << >>
  ELSE LET m == CHOOSE i \in 1..Len(seq) : \A j \in 1..Len(seq) : seq[j] <= seq[i]
       IN  <<seq[m]>> \o
              Only({ SortedDesc(rest) :
                       rest \in {SubSeq(seq, 1, m - 1) \o SubSeq(seq, m + 1, Len(seq))} })

(* the insert without the del *)
InsertOnly(g, y) == <<EmptyRow>> \o g

(* del self.grid[y]; self.grid.insert(0, [0] * GRID_WIDTH) *)
DeleteAndInsert(g, y) ==
  <<EmptyRow>> \o SubSeq(g, 1, y) \o SubSeq(g, y + 2, Len(g))

(* the loop of finish_line_clear over the rows ys, from ys[i] on *)
RECURSIVE RemoveRows(_, _, _)
RemoveRows(g, ys, i) ==
  IF i > Len(ys) THEN g
  ELSE Only({ RemoveRows(h, ys, i + 1) : h \in {DeleteAndInsert(g, ys[i])} })

Max(a, b) == IF a >= b THEN a ELSE b

Min(a, b) == IF a <= b THEN a ELSE b

(* a compaction that sets the level before it adds to the score *)
finish_line_clear_level_first(s, rnd) ==
  IF s.lines_clearing = << >> THEN s
  ELSE LET lines_count == Len(s.lines_clearing)
           total == s.lines_cleared + lines_count
           lvl == total \div LINES_PER_LEVEL + 1
           s2 == [s EXCEPT
                    !.grid = RemoveRows(s.grid, SortedDesc(s.lines_clearing), 1),
                    !.lines_cleared = total,
                    !.score = s.score + lines_count * LINE_SCORE * lvl,
                    !.level = lvl,
                    !.fall_speed = Max(MIN_FALL_SPEED,
                                       BASE_FALL_SPEED - (lvl - 1) * FALL_SPEED_STEP),
                    !.particles = s.particles \o
                       [k \in 1..(PARTICLES_PER_BLOCK * Min(rnd.emit, lines_count * GRID_WIDTH))
                          |-> PARTICLE_LIFE],
                    !.lines_clearing = << >>,
                    !.clear_animation_time = 0]
       IN  Logged(s, "compact", s2)

(* a compaction that sets the fall speed without its floor *)
finish_line_clear_no_floor(s, rnd) ==
  IF s.lines_clearing = << >> THEN s
  ELSE LET lines_count == Len(s.lines_clearing)
           total == s.lines_cleared + lines_count
           lvl == total \div LINES_PER_LEVEL + 1
           s2 == [s EXCEPT
                    !.grid = RemoveRows(s.grid, SortedDesc(s.lines_clearing), 1),
                    !.lines_cleared = total,
                    !.score = s.score + lines_count * LINE_SCORE * s.level,
                    !.level = lvl,
                    !.fall_speed = BASE_FALL_SPEED - (lvl - 1) * FALL_SPEED_STEP,
                    !.particles = s.particles \o
                       [k \in 1..(PARTICLES_PER_BLOCK * Min(rnd.emit, lines_count * GRID_WIDTH))
                          |-> PARTICLE_LIFE],
                    !.lines_clearing = << >>,
                    !.clear_animation_time = 0]
       IN  Logged(s, "compact", s2)

(* TetrisGame.finish_line_clear *)
finish_line_clear(s, rnd) ==
  IF s.lines_clearing = << >> THEN s
  ELSE LET lines_count == Len(s.lines_clearing)
           total == s.lines_cleared + lines_count
           lvl == total \div LINES_PER_LEVEL + 1
           emitting == Min(rnd.emit, lines_count * GRID_WIDTH)
           s2 == [s EXCEPT
                    !.grid = Only({ RemoveRows(s.grid, ys, 1) :
                                      ys \in {SortedDesc(s.lines_clearing)} }),
                    !.lines_cleared = total,
                    !.score = s.score + lines_count * LINE_SCORE * s.level,
                    !.level = lvl,
                    !.fall_speed = Max(MIN_FALL_SPEED,
                                       BASE_FALL_SPEED - (lvl - 1) * FALL_SPEED_STEP),
                    !.particles = s.particles \o
                       [k \in 1..(PARTICLES_PER_BLOCK * emitting) |-> PARTICLE_LIFE],
                    !.lines_clearing = << >>,
                    !.clear_animation_time = 0]
       IN  Logged(s, "compact", s2)

(* the scan of clear_lines: the full rows from row y down, ascending *)
RECURSIVE FullRowsFrom(_, _)
FullRowsFrom(g, y) ==
  IF y >= GRID_HEIGHT THEN << >>
  ELSE (IF RowFull(g, y) THEN <<y>> ELSE << >>) \o FullRowsFrom(g, y + 1)

(* TetrisGame.clear_lines *)
clear_lines(s, rnd) ==
  LET lines_to_clear == FullRowsFrom(s.grid, 0)
  IN  IF lines_to_clear # << >>
      THEN Logged(s, "detect",
                  [s EXCEPT !.lines_clearing = lines_to_clear,
                            !.clear_animation_time = 0])
      ELSE finish_line_clear(s, rnd)

(* the grid writes of place_piece *)
WritePiece(g, p) ==
  LET cells == { pos \in get_positions(p) :
                   /\ 0 <= pos[2] /\ pos[2] < GRID_HEIGHT
                   /\ 0 <= pos[1] /\ pos[1] < GRID_WIDTH }
  IN  [y \in 1..Len(g) |->
         [x \in 1..Len(g[y]) |->
            IF <<x - 1, y - 1>> \in cells THEN p.color ELSE g[y][x]]]

(* TetrisGame.place_piece *)
place_piece(s, rnd) ==
  Only({ spawn_new_piece(s2, rnd.idx) :
           s2 \in { clear_lines(s1, rnd) :
                      s1 \in {Logged(s, "commit",
                                     [s EXCEPT !.grid = WritePiece(s.grid, s.current_piece)])} } })

(* TetrisGame.move_piece: the fields after it, and its return value *)
move_piece(s, dx, dy, rnd) ==
  IF s.current_piece = None THEN [s |-> s, ok |-> FALSE]
  ELSE LET moved == [s.current_piece EXCEPT !.x = @ + dx, !.y = @ + dy]
       IN  IF ~ is_valid_position(s.grid, moved)
           THEN [s |-> IF dy > 0 THEN place_piece(s, rnd) ELSE s, ok |-> FALSE]
           ELSE [s |-> [s EXCEPT !.current_piece = moved], ok |-> TRUE]

(* a rotation that is not rolled back *)
rotate_piece_kept(s) ==
  IF s.current_piece = None THEN s
  ELSE [s EXCEPT !.current_piece.shape = rotate(@)]

(* a rotation that also restarts the fall timer *)
rotate_piece_resets_timer(s) ==
  IF s.current_piece = None THEN s
  ELSE LET turned == [s.current_piece EXCEPT !.shape = rotate(@)]
       IN  IF ~ is_valid_position(s.grid, turned) THEN [s EXCEPT !.fall_time = 0]
           ELSE [s EXCEPT !.current_piece = turned, !.fall_time = 0]

(* TetrisGame.rotate_piece *)
rotate_piece(s) ==
  IF s.current_piece = None THEN s
  ELSE LET turned == [s.current_piece EXCEPT !.shape = rotate(@)]
       IN  IF ~ is_valid_position(s.grid, turned) THEN s
           ELSE [s EXCEPT !.current_piece = turned]

(* a drop of one row *)
hard_drop_once(s, rnd) == move_piece(s, 0, 1, rnd).s

(* TetrisGame.hard_drop *)
RECURSIVE hard_drop(_, _)
hard_drop(s, rnd) ==
  LET r == move_piece(s, 0, 1, rnd)
  IN  IF r.ok THEN hard_drop(r.s, rnd) ELSE r.s

(* the scan of a column without its break: the row of the lowest block *)
lowest_block_y(g, x) ==
  LET ys == { y \in 0..(GRID_HEIGHT - 1) : Cell(g, x, y) # 0 }
  IN  IF ys = {} THEN GRID_HEIGHT
      ELSE CHOOSE y \in ys : \A z \in ys : y >= z

(* the row of the highest block of column x, GRID_HEIGHT if it has none *)
highest_block_y(g, x) ==
  LET ys == { y \in 0..(GRID_HEIGHT - 1) : Cell(g, x, y) # 0 }
  IN  IF ys = {} THEN GRID_HEIGHT
      ELSE CHOOSE y \in ys : \A z \in ys : y <= z

(* valid_positions of spawn_random_block, as a set *)
valid_positions(g) ==
  { <<x, highest_block_y(g, x) - 1>> :
      x \in { c \in 0..(GRID_WIDTH - 1) : highest_block_y(g, c) > 0 } }

(* TetrisGame.spawn_random_block; rnd.pos is random.choice(valid_positions) *)
spawn_random_block(s, rnd) ==
  IF valid_positions(s.grid) = {} THEN s
  ELSE Logged(s, "inject",
              [s EXCEPT !.grid = SetCell(s.grid, rnd.pos[1], rnd.pos[2], rnd.color)])

(* gravity that keeps the time beyond fall_speed *)
fall_step_remainder(s, dt, rnd) ==
  LET s1 == [s EXCEPT !.fall_time = @ + dt]
  IN  IF s1.fall_time >= s1.fall_speed
      THEN [move_piece(s1, 0, 1, rnd).s EXCEPT !.fall_time = s1.fall_time - s1.fall_speed]
      ELSE s1

(* update, lines 254-257: gravity *)
fall_step(s, dt, rnd) ==
  LET s1 == [s EXCEPT !.fall_time = @ + dt]
  IN  IF s1.fall_time >= s1.fall_speed
      THEN [move_piece(s1, 0, 1, rnd).s EXCEPT !.fall_time = 0]
      ELSE s1

(* update, lines 259-263: the line clearing animation *)
clear_step(s, dt, rnd) ==
  IF s.lines_clearing # << >>
  THEN LET s1 == [s EXCEPT !.clear_animation_time = @ + dt]
       IN  IF s1.clear_animation_time >= CLEAR_ANIMATION_DURATION
           THEN finish_line_clear(s1, rnd)
           ELSE s1
  ELSE s

(* update, lines 265-273: particles fade and die *)
particle_step(s) ==
  LET faded == [k \in 1..Len(s.particles) |-> s.particles[k] - PARTICLE_DECAY]
      Alive(life) == ~ (life <= 0)
  IN  [s EXCEPT !.particles = SelectSeq(faded, Alive)]

(* whether update reaches spawn_random_block *)
injects(s, dt) ==
  s.random_blocks_enabled /\ s.random_block_time + dt >= s.random_block_interval

(* update, lines 275-282: random blocks *)
random_step(s, dt, rnd) ==
  IF s.random_blocks_enabled
  THEN LET s1 == [s EXCEPT !.random_block_time = @ + dt]
       IN  IF s1.random_block_time >= s1.random_block_interval
           THEN [spawn_random_block(s1, rnd) EXCEPT
                   !.random_block_time = 0,
                   !.random_block_interval = rnd.interval]
           ELSE s1
  ELSE s

(* an update that runs while the game is paused *)
update_paused(s, dt, rnd) ==
  IF s.game_over THEN s
  ELSE random_step(particle_step(clear_step(fall_step(s, dt, rnd), dt, rnd)), dt, rnd)

(* TetrisGame.update *)
update(s, dt, rnd) ==
  IF s.game_over \/ s.paused THEN s
  ELSE Only({ random_step(s3, dt, rnd) :
                s3 \in { particle_step(s2) :
                           s2 \in { clear_step(s1, dt, rnd) :
                                      s1 \in {fall_step(s, dt, rnd)} } } })

(* TetrisGame.__init__: the two pieces drawn are kinds a and b *)
TetrisGame_init(a, b, interval) ==
  LET s0 == [grid |-> EmptyGrid, current_piece |-> None, next_piece |-> None,
             score |-> 0, lines_cleared |-> 0, level |-> 1,
             game_over |-> FALSE, paused |-> FALSE,
             fall_time |-> 0, fall_speed |-> BASE_FALL_SPEED,
             random_block_time |-> 0, random_block_interval |-> interval,
             random_blocks_enabled |-> FALSE,
             lines_clearing |-> << >>, clear_animation_time |-> 0,
             particles |-> << >>, log |-> << >>]
  IN  spawn_new_piece(spawn_new_piece(s0, a), b)

(* key handling that does not look at game_over before it moves the piece *)
handle_key_after_end(s, key, rnd) ==
  CASE key = "K_r" -> TetrisGame_init(rnd.idx, rnd.idx2, rnd.interval)
    [] key = "K_p" -> [s EXCEPT !.paused = ~ s.paused]
    [] key = "K_b" -> [s EXCEPT !.random_blocks_enabled = ~ s.random_blocks_enabled]
    [] OTHER ->
         IF ~ s.paused
         THEN CASE key = "K_LEFT" -> move_piece(s, -1, 0, rnd).s
                [] key = "K_RIGHT" -> move_piece(s, 1, 0, rnd).s
                [] key = "K_DOWN" -> move_piece(s, 0, 1, rnd).s
                [] key = "K_UP" -> rotate_piece(s)
                [] key = "K_SPACE" -> hard_drop(s, rnd)
                [] OTHER -> s
         ELSE s

(* a restart that keeps the random-block switch *)
handle_key_keep_switch(s, key, rnd) ==
  CASE key = "K_r" -> [TetrisGame_init(rnd.idx, rnd.idx2, rnd.interval) EXCEPT
                         !.random_blocks_enabled = s.random_blocks_enabled]
    [] key = "K_p" -> [s EXCEPT !.paused = ~ s.paused]
    [] key = "K_b" -> [s EXCEPT !.random_blocks_enabled = ~ s.random_blocks_enabled]
    [] OTHER ->
         IF ~ s.game_over /\ ~ s.paused
         THEN CASE key = "K_LEFT" -> move_piece(s, -1, 0, rnd).s
                [] key = "K_RIGHT" -> move_piece(s, 1, 0, rnd).s
                [] key = "K_DOWN" -> move_piece(s, 0, 1, rnd).s
                [] key = "K_UP" -> rotate_piece(s)
                [] key = "K_SPACE" -> hard_drop(s, rnd)
                [] OTHER -> s
         ELSE s

(* TetrisGame.handle_events, one KEYDOWN event *)
handle_key(s, key, rnd) ==
  CASE key = "K_r" -> TetrisGame_init(rnd.idx, rnd.idx2, rnd.interval)
    [] key = "K_p" -> [s EXCEPT !.paused = ~ s.paused]
    [] key = "K_b" -> [s EXCEPT !.random_blocks_enabled = ~ s.random_blocks_enabled]
    [] OTHER ->
         IF ~ s.game_over /\ ~ s.paused
         THEN CASE key = "K_LEFT" -> move_piece(s, -1, 0, rnd).s
                [] key = "K_RIGHT" -> move_piece(s, 1, 0, rnd).s
                [] key = "K_DOWN" -> move_piece(s, 0, 1, rnd).s
                [] key = "K_UP" -> rotate_piece(s)
                [] key = "K_SPACE" -> hard_drop(s, rnd)
                [] OTHER -> s
         ELSE s

----------------------------------------------------------------------------
(* Positions the runs start from: the state __init__ leaves, and positions
   of a game in progress in which a piece has just spawned.  There rows
   6..19 hold a stack with column 0 open, and rows 0..5 differ. *)

RowExcept(open) == [i \in 1..GRID_WIDTH |-> IF (i - 1) \in open THEN 0 ELSE 1]

StackOn(top) ==
  [y \in 1..GRID_HEIGHT |-> IF y <= Len(top) THEN top[y] ELSE RowExcept({0})]

(* a well two columns wide and four rows deep under the spawn position *)
Well2 == StackOn(<<EmptyRow, EmptyRow, RowExcept({4, 5}), RowExcept({4, 5}),
                   RowExcept({4, 5}), RowExcept({4, 5})>>)

(* a well four columns wide: a lying I fills one row *)
Well4 == StackOn(<<EmptyRow, EmptyRow, RowExcept(4..7), RowExcept(4..7),
                   RowExcept(4..7), RowExcept(4..7)>>)

(* a well one column wide: a standing I fills four rows *)
Well1 == StackOn(<<EmptyRow, EmptyRow, RowExcept({4}), RowExcept({4}),
                   RowExcept({4}), RowExcept({4})>>)

(* the two-wide well beside a column that is empty down to the bottom row *)
Well2Open == StackOn(<<EmptyRow, EmptyRow, RowExcept({0, 4, 5}), RowExcept({0, 4, 5}),
                       RowExcept({0, 4, 5}), RowExcept({0, 4, 5})>>)

(* a well under a ledge: column 6 is filled in row 2 and open in rows 3..5 *)
Ledge == StackOn(<<EmptyRow, EmptyRow, RowExcept({4, 5}), RowExcept({4, 5, 6}),
                   RowExcept({4, 5, 6}), RowExcept({4, 5, 6}), RowExcept({4, 5})>>)

Start(g, lines, enabled, rbt) ==
  [grid |-> g, lines_cleared |-> lines, random_blocks_enabled |-> enabled,
   random_block_time |-> rbt]

Starts ==
  { Start(EmptyGrid, 0, FALSE, 0),
    Start(Well2, 0, FALSE, 0),
    Start(Well4, 0, FALSE, 0),
    Start(Well1, 9, FALSE, 0),
    Start(Well4, 109, FALSE, 0),
    Start(Well2Open, 0, TRUE, MIN_RANDOM_INTERVAL - 400) }

(* the game at start position st, the pieces a and b just drawn *)
StartGame(st, a, b) ==
  LET s == TetrisGame_init(a, b, MIN_RANDOM_INTERVAL)
      lvl == st.lines_cleared \div LINES_PER_LEVEL + 1
  IN  [s EXCEPT !.grid = st.grid,
                !.lines_cleared = st.lines_cleared,
                !.score = st.lines_cleared * LINE_SCORE,
                !.level = lvl,
                !.fall_speed = Max(MIN_FALL_SPEED,
                                   BASE_FALL_SPEED - (lvl - 1) * FALL_SPEED_STEP),
                !.random_blocks_enabled = st.random_blocks_enabled,
                !.random_block_time = st.random_block_time,
                !.log = << >>]

(* a game in which a lying I has just been dropped into the wide well and
   has filled row 5: the clear is pending, piece b has spawned, c is next *)
MidClear(b, c) ==
  hard_drop(StartGame(Start(Well4, 0, FALSE, 0), 0, b),
            Rnd(c, 0, <<0, 0>>, 1, MIN_RANDOM_INTERVAL))

(* a game in which an O has just been dropped into the well under the ledge
   and has filled row 6: the clear is pending, piece b has spawned *)
MidLedge(b) ==
  hard_drop(StartGame(Start(Ledge, 0, FALSE, 0), 1, b),
            Rnd(0, 0, <<0, 0>>, 1, MIN_RANDOM_INTERVAL))

(* the games that start with a clear pending *)
Pending == { MidClear(b, c) : b \in Kinds, c \in Kinds } \cup { MidLedge(b) : b \in Kinds }

----------------------------------------------------------------------------
(* What a run observes of itself: the last handler with its log, the commits
   the run may still make, and the watch on a placement that filled exactly
   one row.  None of these is a field of the program. *)

WatchOff ==
  [on |-> FALSE, row |-> 0, since |-> 0, lines |-> 0, score |-> 0, level |-> 0,
   compacts |-> << >>]

EventsOf(log, ev) == SelectSeq(log, LAMBDA e : e.ev = ev)

(* the watch after a handler with this log: a commit that made exactly one
   row full, which was not full before, starts it; the time of the updates
   that ran after that adds up in "since"; the compactions since are kept *)
WatchAfter(w, op, dt, ran, log) ==
  LET commits == EventsOf(log, "commit")
      detects == EventsOf(log, "detect")
      Starts1 == /\ commits # << >>
                 /\ detects # << >>
                 /\ Len(detects[1].post.lines_clearing) = 1
                 /\ ~ RowFull(commits[1].pre.grid, detects[1].post.lines_clearing[1])
  IN  IF op = "K_r" THEN WatchOff
      ELSE IF ~ w.on /\ Starts1
      THEN [on |-> TRUE, row |-> detects[1].post.lines_clearing[1], since |-> 0,
            lines |-> detects[1].post.lines_cleared,
            score |-> detects[1].post.score,
            level |-> detects[1].post.level,
            compacts |-> EventsOf(log, "compact")]
      ELSE IF w.on /\ w.since >= CLEAR_ANIMATION_DURATION THEN WatchOff
      ELSE IF w.on
      THEN [w EXCEPT !.since = IF op = "update" /\ ran THEN @ + dt ELSE @,
                     !.compacts = @ \o EventsOf(log, "compact")]
      ELSE w

----------------------------------------------------------------------------
(* The state machine *)

State ==
  [grid |-> grid, current_piece |-> current_piece, next_piece |-> next_piece,
   score |-> score, lines_cleared |-> lines_cleared, level |-> level,
   game_over |-> game_over, paused |-> paused,
   fall_time |-> fall_time, fall_speed |-> fall_speed,
   random_block_time |-> random_block_time,
   random_block_interval |-> random_block_interval,
   random_blocks_enabled |-> random_blocks_enabled,
   lines_clearing |-> lines_clearing,
   clear_animation_time |-> clear_animation_time,
   particles |-> particles, log |-> << >>]

Is(s) ==
  /\ grid = s.grid
  /\ current_piece = s.current_piece
  /\ next_piece = s.next_piece
  /\ score = s.score
  /\ lines_cleared = s.lines_cleared
  /\ level = s.level
  /\ game_over = s.game_over
  /\ paused = s.paused
  /\ fall_time = s.fall_time
  /\ fall_speed = s.fall_speed
  /\ random_block_time = s.random_block_time
  /\ random_block_interval = s.random_block_interval
  /\ random_blocks_enabled = s.random_blocks_enabled
  /\ lines_clearing = s.lines_clearing
  /\ clear_animation_time = s.clear_animation_time
  /\ particles = s.particles

Becomes(s) ==
  /\ grid' = s.grid
  /\ current_piece' = s.current_piece
  /\ next_piece' = s.next_piece
  /\ score' = s.score
  /\ lines_cleared' = s.lines_cleared
  /\ level' = s.level
  /\ game_over' = s.game_over
  /\ paused' = s.paused
  /\ fall_time' = s.fall_time
  /\ fall_speed' = s.fall_speed
  /\ random_block_time' = s.random_block_time
  /\ random_block_interval' = s.random_block_interval
  /\ random_blocks_enabled' = s.random_blocks_enabled
  /\ lines_clearing' = s.lines_clearing
  /\ clear_animation_time' = s.clear_animation_time
  /\ particles' = s.particles

Abs(n) == IF n < 0 THEN -n ELSE n

SpawnX == GRID_WIDTH \div 2 - 1

(* one handler ran: op(dt) took the fields to s.  A run is explored as long
   as it commits at most MaxPlacements pieces, calls update at most
   MaxRandomTicks times with random blocks enabled, and the player keeps the
   piece within MaxShift columns of the spawn column; after a restart it is
   explored without commits. *)
Ran(op, dt, s) ==
  LET timed == op = "update" /\ ~ game_over /\ ~ paused /\ random_blocks_enabled
  IN  /\ CountEv(s.log, "commit") <= budget.commits
      /\ timed => budget.timed > 0
      /\ Abs(s.current_piece.x - SpawnX) <= MaxShift
      /\ Becomes(s)
      /\ last' = [op |-> op, dt |-> dt, log |-> s.log]
      /\ budget' = IF op = "K_r" THEN [commits |-> 0, timed |-> 0]
                    ELSE [commits |-> budget.commits - CountEv(s.log, "commit"),
                          timed |-> IF timed THEN budget.timed - 1 ELSE budget.timed]
      /\ watch' = WatchAfter(watch, op, dt, ~ game_over /\ ~ paused, s.log)

Init ==
  \/ \E st \in Starts, a \in Kinds, b \in Kinds :
        /\ Is(StartGame(st, a, b))
        /\ last = [op |-> "init", dt |-> 0, log |-> << >>]
        /\ budget = [commits |-> MaxPlacements, timed |-> MaxRandomTicks]
        /\ watch = WatchOff
  \/ \E m \in Pending :
        /\ Is(m)
        /\ last = [op |-> "init", dt |-> 0, log |-> << >>]
        /\ budget = [commits |-> MaxPlacements, timed |-> MaxRandomTicks]
        /\ watch = WatchAfter(WatchOff, "K_SPACE", 0, TRUE, m.log)

(* the draws update(dt) can make from s: a kind if the fall places the piece,
   emitting cells if rows are compacted, a block if one is injected *)
SpawnDraws(s, dt) ==
  IF HasEv(fall_step(s, dt, Rnd0).log, "spawn") THEN Kinds ELSE {0}

EmitDraws(s, dt) ==
  IF HasEv(clear_step(s, dt, Rnd0).log, "compact") THEN 0..MaxEmit ELSE {0}

BlockDraws(s, dt) ==
  IF injects(s, dt) /\ valid_positions(s.grid) # {}
  THEN LET near == { pos \in valid_positions(s.grid) : pos[1] \in BlockColumns }
       IN  (IF near # {} THEN near ELSE valid_positions(s.grid))
              \X BlockColors \X Intervals
  ELSE IF injects(s, dt) THEN {<<0, 0>>} \X {1} \X Intervals
  ELSE {<<(<<0, 0>>), 1, MIN_RANDOM_INTERVAL>>}

UpdateDraws(s, dt) ==
  IF s.game_over \/ s.paused THEN {Rnd0}
  ELSE UNION { UNION { UNION { { Rnd(i, e, b[1], b[2], b[3]) : b \in BlockDraws(s3, dt) } :
                                s3 \in { particle_step(s2) :
                                            s2 \in {clear_step(s1, dt, Rnd(i, e, <<0, 0>>, 1, 0))} } } :
                       e \in EmitDraws(s1, dt) } :
               <<i, s1>> \in { <<k, fall_step(s, dt, Rnd(k, 0, <<0, 0>>, 1, 0))>> :
                                  k \in SpawnDraws(s, dt) } }

(* the main loop calls update(dt) *)
Tick ==
  \E dt \in DTs : \E rnd \in UpdateDraws(State, dt) :
     \E s \in {update(State, dt, rnd)} : Ran("update", dt, s)

(* a key that can place the piece draws the kind of the piece spawned *)
KeyDraws(s, key) ==
  IF HasEv(handle_key(s, key, Rnd0).log, "spawn")
  THEN { Rnd(i, 0, <<0, 0>>, 1, MIN_RANDOM_INTERVAL) : i \in Kinds }
  ELSE {Rnd0}

Key(key) ==
  \E rnd \in KeyDraws(State, key) :
     Ran(key, 0, handle_key(State, key, rnd))

(* the movement keys are explored until the run's last commit, and while
   the game is over or paused *)
Playing == budget.commits > 0 \/ game_over \/ paused

(* P is explored at the start of a run and while the game is over, B while
   the game is over or paused *)
Idle == last.op \in {"init", "K_p"} \/ game_over

MoveLeft == Playing /\ Key("K_LEFT")

MoveRight == Playing /\ Key("K_RIGHT")

SoftDrop == Playing /\ Key("K_DOWN")

RotateClockwise == Playing /\ Key("K_UP")

HardDrop == Playing /\ Key("K_SPACE")

TogglePause == Idle /\ Key("K_p")

ToggleRandomBlocks == (game_over \/ paused) /\ Key("K_b")

Restart ==
  \E a \in Kinds, b \in Kinds, iv \in Intervals :
     Ran("K_r", 0, [handle_key(State, "K_r", RndInit(a, b, iv)) EXCEPT !.log = << >>])

Next ==
  \/ Tick
  \/ MoveLeft
  \/ MoveRight
  \/ SoftDrop
  \/ RotateClockwise
  \/ HardDrop
  \/ TogglePause
  \/ ToggleRandomBlocks
  \/ Restart

Spec == Init /\ [][Next]_vars

(* every kind random.randint(0, len(TETROMINOS) - 1) can draw *)
AllKinds == 0..(Len(TETROMINOS) - 1)

(* a new game whose first piece is of any kind, moved and turned by the
   player until it lands *)
InitShapes ==
  \E a \in AllKinds :
     /\ Is(StartGame(Start(EmptyGrid, 0, FALSE, 0), a, 0))
     /\ last = [op |-> "init", dt |-> 0, log |-> << >>]
     /\ budget = [commits |-> MaxPlacements, timed |-> MaxRandomTicks]
     /\ watch = WatchOff

NextShapes ==
  \/ RotateClockwise
  \/ MoveLeft
  \/ MoveRight
  \/ SoftDrop

SpecShapes == InitShapes /\ [][NextShapes]_vars

(* a game that is never paused, never restarted and has random blocks
   disabled: its first piece has just spawned and an O is next, or an I is
   falling while a clear is pending *)
InitGravity ==
  \/ \E st \in { q \in Starts : ~ q.random_blocks_enabled }, a \in Kinds :
        /\ Is(StartGame(st, a, 1))
        /\ last = [op |-> "init", dt |-> 0, log |-> << >>]
        /\ budget = [commits |-> MaxPlacements, timed |-> MaxRandomTicks]
        /\ watch = WatchOff
  \/ /\ Is(MidClear(0, 1))
     /\ last = [op |-> "init", dt |-> 0, log |-> << >>]
     /\ budget = [commits |-> MaxPlacements, timed |-> MaxRandomTicks]
     /\ watch = WatchAfter(WatchOff, "K_SPACE", 0, TRUE, MidClear(0, 1).log)

(* the player shifts and turns the piece; only the main loop's update lets
   it fall *)
NextGravity ==
  \/ Tick
  \/ MoveLeft
  \/ MoveRight
  \/ RotateClockwise

(* run calls update(dt) in every iteration of its loop, with dt > 0: however
   many keys are handled, update is called again *)
SpecGravity == InitGravity /\ [][NextGravity]_vars /\ WF_vars(Tick)

----------------------------------------------------------------------------
(* Properties *)

Events == { last.log[i] : i \in 1..Len(last.log) }

EventsNamed(ev) == { e \in Events : e.ev = ev }

SetOf(seq) == { seq[i] : i \in 1..Len(seq) }

(* the rows of g whose index is not in S, in their order, from row y on *)
RECURSIVE RowsKept(_, _, _)
RowsKept(g, S, y) ==
  IF y >= Len(g) THEN << >>
  ELSE (IF y \in S THEN << >> ELSE <<g[y + 1]>>) \o RowsKept(g, S, y + 1)

(* g with the rows of S deleted and as many empty rows put on top *)
Compacted(g, S) == [k \in 1..Cardinality(S) |-> EmptyRow] \o RowsKept(g, S, 0)

(* C1: compaction of the recorded rows S yields the grid before it with
   exactly the rows of S deleted, the other rows in their order, and |S|
   empty rows on top: no row outside S is removed and no row of S survives. *)
C1_CompactionDeletesRecordedRows ==
  \A e \in EventsNamed("compact") :
     e.post.grid = Compacted(e.pre.grid, SetOf(e.pre.lines_clearing))

(* C2: no piece is spawned while rows are recorded for clearing: every
   spawn happens with an empty set of clearing rows. *)
C2_NoSpawnWhileClearing ==
  \A e \in EventsNamed("spawn") : e.pre.lines_clearing = << >>

(* C3: a tick in which the clear animation completes spawns after the
   compaction: after the tick the current piece is the piece that was next
   before it, and game_over is set if that piece is blocked. *)
C3_SpawnFollowsCompaction ==
  (last.op = "update" /\ EventsNamed("compact") # {}) =>
     /\ \E i \in 1..Len(last.log) : \E j \in (i + 1)..Len(last.log) :
           last.log[i].ev = "compact" /\ last.log[j].ev = "spawn"
     /\ current_piece = last.log[1].pre.next_piece
     /\ ~ is_valid_position(grid, current_piece) => game_over

(* the piece of kind k at the spawn origin, unrotated *)
IsFresh(p) ==
  \E k \in 0..6 : p = Tetromino(GRID_WIDTH \div 2 - 1, 0, k)

(* C4: game_over becomes true exactly when spawn_new_piece promotes the next
   piece, which sits unrotated at the spawn origin, and that position is
   invalid on the grid; a spawn leaves the grid as it is, and nothing but
   a spawn sets game_over. *)
C4_GameOverExactlyAtBlockedSpawn ==
  /\ [](\A e \in EventsNamed("spawn") :
          /\ e.post.current_piece = e.pre.next_piece
          /\ IsFresh(e.post.current_piece)
          /\ e.post.grid = e.pre.grid
          /\ e.post.game_over =
               (e.pre.game_over \/ ~ is_valid_position(e.pre.grid, e.pre.next_piece)))
  /\ [](\A e \in Events : e.ev # "spawn" => e.post.game_over = e.pre.game_over)
  /\ [][(game_over' /\ ~ game_over) =>
          \E i \in 1..Len(last'.log) :
             /\ last'.log[i].ev = "spawn"
             /\ ~ last'.log[i].pre.game_over
             /\ ~ is_valid_position(last'.log[i].pre.grid, last'.log[i].pre.next_piece)]_vars

(* a spawn was blocked and ended the game, the grid as before *)
C4_BlockedSpawnReached ==
  \E e \in EventsNamed("spawn") :
     /\ ~ e.pre.game_over
     /\ ~ is_valid_position(e.pre.grid, e.pre.next_piece)
     /\ game_over

(* C5: a compaction of k recorded rows at level L adds k*100*L to the score,
   L the level before it, and k to lines_cleared; then level is
   lines_cleared div 10 + 1 and fall_speed is max(100, 1000 - (level-1)*100). *)
C5_ScoreUsesLevelBeforeCompaction ==
  \A e \in EventsNamed("compact") :
     LET k == Len(e.pre.lines_clearing)
     IN  /\ e.post.score = e.pre.score + k * 100 * e.pre.level
         /\ e.post.lines_cleared = e.pre.lines_cleared + k
         /\ e.post.level = e.post.lines_cleared \div 10 + 1
         /\ e.post.fall_speed = Max(100, 1000 - (e.post.level - 1) * 100)
         /\ (k = 4 /\ e.pre.level = 1) => e.post.score = e.pre.score + 400

(* four rows were compacted at level 1 and the level rose to 2 *)
C5_FourRowsAcrossLevelReached ==
  \E e \in EventsNamed("compact") :
     /\ Len(e.pre.lines_clearing) = 4
     /\ e.pre.level = 1
     /\ e.post.level = 2
     /\ e.post.fall_speed = 900

(* C6: when a placement has filled exactly one row R, then once 800 ms of
   running updates have passed since it, lines_cleared is one more and the
   score 100*level more than at the placement, and the compaction has put an
   empty row on top, moved rows 0..R-1 down by one and left the rows below R
   as they were. *)
C6_OneRowClearedAfterAnimation ==
  (watch.on /\ watch.since >= 800) =>
     /\ lines_cleared = watch.lines + 1
     /\ score = watch.score + 100 * watch.level
     /\ Len(watch.compacts) = 1
     /\ LET before == watch.compacts[1].pre.grid
            after == watch.compacts[1].post.grid
        IN  /\ after[1] = EmptyRow
            /\ \A r \in 1..watch.row : after[r + 1] = before[r]
            /\ \A r \in (watch.row + 1)..(GRID_HEIGHT - 1) : after[r + 1] = before[r + 1]

(* C7: a failed move down commits the piece where it is: that position is
   valid on the grid, the commit writes the cells of the piece there and no
   others, and none of them was occupied. *)
C7_CommitAtValidPosition ==
  \A e \in EventsNamed("commit") :
     LET cells == get_positions(e.pre.current_piece)
     IN  /\ is_valid_position(e.pre.grid, e.pre.current_piece)
         /\ \A pos \in cells :
               (0 <= pos[2] /\ pos[2] < GRID_HEIGHT /\ 0 <= pos[1] /\ pos[1] < GRID_WIDTH)
                  => Cell(e.pre.grid, pos[1], pos[2]) = 0
         /\ \A x \in 0..(GRID_WIDTH - 1), y \in 0..(GRID_HEIGHT - 1) :
               Cell(e.post.grid, x, y) =
                  IF <<x, y>> \in cells THEN e.pre.current_piece.color
                  ELSE Cell(e.pre.grid, x, y)

(* the current piece moved to row y *)
AtRow(y) == [current_piece EXCEPT !.y = y]

(* C8: a hard drop of a piece at a valid position places exactly once, at
   the same x and shape and at the largest row y* such that every row from
   the piece's row to y* is a valid origin. *)
C8_HardDropPlacesAtMaxDepth ==
  [][(last'.op = "K_SPACE" /\ ~ game_over /\ ~ paused
        /\ is_valid_position(grid, current_piece)) =>
       LET commits == EventsOf(last'.log, "commit")
       IN  /\ Len(commits) = 1
           /\ commits[1].pre.grid = grid
           /\ commits[1].pre.current_piece.x = current_piece.x
           /\ commits[1].pre.current_piece.shape = current_piece.shape
           /\ LET ystar == commits[1].pre.current_piece.y
              IN  /\ ystar >= current_piece.y
                  /\ \A y \in current_piece.y..ystar : is_valid_position(grid, AtRow(y))
                  /\ ~ is_valid_position(grid, AtRow(ystar + 1))
           /\ commits[1].post.grid = WritePiece(grid, commits[1].pre.current_piece)]_vars

(* a hard drop took a piece down at least two rows and placed it *)
C8_DroppedPieceReached ==
  /\ last.op = "K_SPACE"
  /\ \E e \in EventsNamed("commit") :
        /\ e.pre.current_piece.y >= 2
        /\ is_valid_position(e.pre.grid, e.pre.current_piece)

RotatedFits == is_valid_position(grid, [current_piece EXCEPT !.shape = rotate(@)])

ShiftedFits(dx) == is_valid_position(grid, [current_piece EXCEPT !.x = @ + dx])

(* C9: a rotation whose result is at an invalid position leaves the piece's
   shape and origin, the grid, the score and game_over as they were, and so
   does a horizontal move to an invalid position: nothing changes. *)
C9_FailedRotationAndShiftChangeNothing ==
  /\ [][(last'.op = "K_UP" /\ ~ RotatedFits) => UNCHANGED fields]_vars
  /\ [][(last'.op = "K_LEFT" /\ ~ ShiftedFits(-1)) => UNCHANGED fields]_vars
  /\ [][(last'.op = "K_RIGHT" /\ ~ ShiftedFits(1)) => UNCHANGED fields]_vars

(* a rotation was tried in a running game where the rotated piece does not fit *)
C9_FailedRotationReached ==
  /\ last.op = "K_UP"
  /\ ~ game_over /\ ~ paused
  /\ ~ RotatedFits

(* C10: an update while the game is over or paused changes nothing: grid,
   pieces, score, lines_cleared, level, the timers, the clearing rows and the
   particles are as before, whatever dt is. *)
C10_UpdateIdleWhenOverOrPaused ==
  [][(last'.op = "update" /\ (game_over \/ paused)) => UNCHANGED fields]_vars

(* an update was called in a paused game, and in a game that is over with a
   clear pending *)
C10_IdleUpdateReached ==
  /\ last.op = "update"
  /\ last.log = << >>
  /\ paused \/ (game_over /\ lines_clearing # << >>)

(* C11: in every state level = lines_cleared div 10 + 1 and fall_speed =
   max(100, 1000 - (level-1)*100), so 100 <= fall_speed <= 1000; with 10 to
   19 lines the level is 2 and fall_speed 900, and from 100 lines on
   fall_speed is 100. *)
C11_LevelAndFallSpeedFollowLines ==
  /\ level = lines_cleared \div 10 + 1
  /\ fall_speed = (IF 1000 - (level - 1) * 100 >= 100
                   THEN 1000 - (level - 1) * 100 ELSE 100)
  /\ 100 <= fall_speed /\ fall_speed <= 1000
  /\ (10 <= lines_cleared /\ lines_cleared < 20) => (level = 2 /\ fall_speed = 900)
  /\ lines_cleared >= 100 => fall_speed = 100

(* a row was compacted beyond 100 lines, where 1000 - (level-1)*100 is
   below the floor *)
C11_FloorReached ==
  \E e \in EventsNamed("compact") :
     /\ e.post.lines_cleared > 100
     /\ 1000 - (e.post.level - 1) * 100 < 100
     /\ fall_speed = 100

(* origins the current piece is tested at: beyond each wall, at the walls,
   above the top, at the bottom and below it *)
ProbeXs == {-1, 0, 3, 6, 7, 9}

ProbeYs == {-2, 0, 4, 16, 19, 20}

Probes == { [current_piece EXCEPT !.x = px, !.y = py] : px \in ProbeXs, py \in ProbeYs }

(* C12: is_valid_position is true exactly when every occupied cell (x, y)
   of the piece has 0 <= x < 10, y < 20 and (y < 0 or grid[y][x] empty): a
   cell beyond a wall or below the bottom is rejected, and the grid is not
   consulted for cells above the top. *)
C12_ValidExactlyWhenCellsFreeAndInBounds ==
  \A p \in Probes :
     /\ is_valid_position(grid, p) =
           (\A pos \in get_positions(p) :
               /\ 0 <= pos[1] /\ pos[1] < 10 /\ pos[2] < 20
               /\ (pos[2] < 0 \/ grid[pos[2] + 1][pos[1] + 1] = 0))
     /\ (\E pos \in get_positions(p) : pos[1] < 0 \/ pos[1] >= 10 \/ pos[2] >= 20)
           => ~ is_valid_position(grid, p)
     /\ (\A pos \in get_positions(p) : 0 <= pos[1] /\ pos[1] < 10 /\ pos[2] < 0)
           => is_valid_position(grid, p)

(* a spawn was rejected for a block of the grid, while the piece is accepted
   at an origin with a cell above the top and rejected at an in-bounds origin *)
C12_RejectedAndAcceptedReached ==
  /\ \E e \in EventsNamed("spawn") :
        ~ is_valid_position(e.post.grid, e.post.current_piece)
  /\ \E p \in Probes :
        /\ is_valid_position(grid, p)
        /\ \E pos \in get_positions(p) : pos[2] < 0
  /\ \E p \in Probes :
        /\ ~ is_valid_position(grid, p)
        /\ \A pos \in get_positions(p) : 0 <= pos[1] /\ pos[1] < 10 /\ pos[2] < 20

RECURSIVE RotN(_, _)
RotN(shape, n) == IF n = 0 THEN shape ELSE rotate(RotN(shape, n - 1))

SetCells(shape) ==
  Cardinality({ rc \in (1..Len(shape)) \X (1..Len(shape[1])) : shape[rc[1]][rc[2]] # 0 })

(* C13: for each of the 7 kinds four rotations give back the shape, and
   each rotation takes a rows x cols shape to a cols x rows shape with
   new[c][rows-1-r] = old[r][c], which keeps the 4 set cells; the piece in
   play always has one of the four turns of its kind. *)
C13_FourRotationsAreIdentity ==
  /\ \A k \in 1..7 :
        /\ RotN(TETROMINOS[k], 4) = TETROMINOS[k]
        /\ \A n \in 0..3 :
              LET old == RotN(TETROMINOS[k], n)
                  new == rotate(old)
                  rows == Len(old)
                  cols == Len(old[1])
              IN  /\ Len(new) = cols
                  /\ \A c \in 1..cols : Len(new[c]) = rows
                  /\ \A r \in 0..(rows - 1), c \in 0..(cols - 1) :
                        new[c + 1][(rows - 1 - r) + 1] = old[r + 1][c + 1]
                  /\ SetCells(new) = 4
  /\ \E n \in 0..3 : current_piece.shape = RotN(TETROMINOS[current_piece.color], n)

(* the T piece, still on the top row of the empty grid where every turn
   fits, has its first shape again after a rotation *)
C13_TurnedBackReached ==
  /\ last.op = "K_UP"
  /\ current_piece.color = 3
  /\ current_piece.y = 0
  /\ current_piece.shape = TETROMINOS[3]

(* C14: after a restart every grid cell is empty, score and lines_cleared
   are 0, level is 1, fall_speed 1000, the game is neither over nor paused,
   random blocks are disabled, both timers and the animation clock are 0,
   no rows are clearing, there are no particles, and a current and a next
   piece sit unrotated at the spawn origin. *)
C14_RestartGivesFreshGame ==
  last.op = "K_r" =>
     /\ \A x \in 0..9, y \in 0..19 : grid[y + 1][x + 1] = 0
     /\ Len(grid) = 20
     /\ score = 0 /\ lines_cleared = 0 /\ level = 1 /\ fall_speed = 1000
     /\ ~ game_over /\ ~ paused /\ ~ random_blocks_enabled
     /\ fall_time = 0 /\ random_block_time = 0
     /\ lines_clearing = << >> /\ clear_animation_time = 0
     /\ particles = << >>
     /\ IsFresh(current_piece) /\ IsFresh(next_piece)
     /\ random_block_interval >= 15000 /\ random_block_interval <= 30000

(* the game was restarted *)
C14_RestartedReached ==
  /\ last.op = "K_r"
  /\ watch = WatchOff
  /\ current_piece.y = 0

(* C15: the animation clock is set to 0 only when rows are recorded while
   none were clearing, and every running update adds dt to it while rows are
   clearing: so the recorded rows are compacted by the first update at which
   the time run since their detection reaches 800, and not before. *)
C15_ClockRunsFromDetection ==
  /\ \A e \in EventsNamed("detect") : e.pre.lines_clearing = << >>
  /\ \A e \in EventsNamed("compact") : e.pre.clear_animation_time >= 800
  /\ (watch.on /\ watch.since >= 800) => Len(watch.compacts) >= 1

(* C16: a running update adds dt to the fall timer; if the timer is then at
   least fall_speed, the piece is moved down once (one row, or placed where
   it is) and the timer becomes 0, otherwise the piece stays where it is;
   and a shift, a soft drop or a rotation leaves the fall timer alone. *)
C16_OneFallPerUpdate ==
  /\ [][(last'.op = "update" /\ ~ game_over /\ ~ paused) =>
          LET commits == EventsOf(last'.log, "commit")
          IN  IF fall_time + last'.dt >= fall_speed
              THEN /\ fall_time' = 0
                   /\ IF is_valid_position(grid, AtRow(current_piece.y + 1))
                      THEN /\ commits = << >>
                           /\ current_piece' = AtRow(current_piece.y + 1)
                      ELSE /\ Len(commits) = 1
                           /\ commits[1].pre.current_piece = current_piece
                           /\ commits[1].pre.grid = grid
              ELSE /\ fall_time' = fall_time + last'.dt
                   /\ current_piece' = current_piece
                   /\ commits = << >>]_vars
  /\ [][last'.op \in {"K_LEFT", "K_RIGHT", "K_DOWN", "K_UP"} =>
          fall_time' = fall_time]_vars

(* an update with dt ten times fall_speed took the piece from the top row
   down one row *)
C16_OneRowForLongUpdateReached ==
  /\ last.op = "update"
  /\ last.dt = 1000
  /\ last.log = << >>
  /\ fall_speed = 100
  /\ fall_time = 0
  /\ current_piece.y = 1
  /\ ~ game_over

(* the cells in which grids g and h differ *)
Changed(g, h) ==
  { xy \in (0..9) \X (0..19) : g[xy[2] + 1][xy[1] + 1] # h[xy[2] + 1][xy[1] + 1] }

(* the fields with the top row of the grid full *)
TopRowFull == [State EXCEPT !.grid[1] = [i \in 1..10 |-> 1]]

(* C17: an injection changes one cell of the grid: a cell that was empty, in
   a column whose top cell is empty, directly above the column's highest
   block or in the bottom row of an empty column; when no column has an
   empty top cell nothing is written; it is done only by an update with
   random blocks enabled and the timer at its interval, and the timer is
   0 after it. *)
C17_InjectionFillsCellAboveStack ==
  /\ \A e \in EventsNamed("inject") :
        /\ Cardinality(Changed(e.pre.grid, e.post.grid)) = 1
        /\ \A xy \in Changed(e.pre.grid, e.post.grid) :
              /\ e.post.grid[xy[2] + 1][xy[1] + 1] # 0
              /\ \A y \in 0..xy[2] : e.pre.grid[y + 1][xy[1] + 1] = 0
              /\ xy[2] = 19 \/ e.pre.grid[xy[2] + 2][xy[1] + 1] # 0
        /\ e.pre.random_blocks_enabled
        /\ e.pre.random_block_time >= e.pre.random_block_interval
        /\ last.op = "update"
        /\ random_block_time = 0
  /\ \A x \in 0..9 :
        spawn_random_block(TopRowFull, Rnd(0, 0, <<x, 0>>, 2, MIN_RANDOM_INTERVAL)).grid
           = TopRowFull.grid

(* a block was injected into the bottom row of the empty column *)
C17_InjectedReached ==
  \E e \in EventsNamed("inject") : Changed(e.pre.grid, e.post.grid) = {<<0, 19>>}

(* C18: once the game is over it stays over, and grid, score,
   lines_cleared, level, current piece and clearing rows stay as they are
   under updates and every key but the restart key; and the movement keys
   change nothing while the game is paused. *)
C18_GameOverFreezesUntilRestart ==
  /\ [][(game_over /\ last'.op # "K_r") =>
          /\ game_over'
          /\ UNCHANGED <<grid, score, lines_cleared, level, current_piece,
                         lines_clearing>>]_vars
  /\ [][(paused /\ last'.op \in {"K_LEFT", "K_RIGHT", "K_DOWN", "K_UP", "K_SPACE"}) =>
          UNCHANGED fields]_vars

(* a hard drop was tried after the end of a game in which a clear is pending *)
C18_KeyAfterEndReached ==
  /\ game_over
  /\ last.op = "K_SPACE"
  /\ last.log = << >>
  /\ lines_clearing # << >>

WellFormed(g) == Len(g) = 20 /\ \A y \in 1..20 : Len(g[y]) = 10

(* C19: the grid always has 20 rows of 10 cells: a commit changes only
   in-bounds cells of the piece, a compaction leaves as many rows as it
   found, an injection changes an in-bounds cell, and every recorded
   clearing row is an index from 0 to 19. *)
C19_GridKeepsItsDimensions ==
  /\ WellFormed(grid)
  /\ \A i \in 1..Len(lines_clearing) : 0 <= lines_clearing[i] /\ lines_clearing[i] < 20
  /\ \A e \in Events :
        /\ WellFormed(e.pre.grid) /\ WellFormed(e.post.grid)
        /\ \A i \in 1..Len(e.post.lines_clearing) :
              0 <= e.post.lines_clearing[i] /\ e.post.lines_clearing[i] < 20
        /\ e.ev = "commit" =>
              Changed(e.pre.grid, e.post.grid) \subseteq get_positions(e.pre.current_piece)
        /\ e.ev \in {"spawn", "detect"} => e.post.grid = e.pre.grid

(* rows were compacted, several at once, and the grid has its 20 rows *)
C19_CompactedGridReached ==
  /\ WellFormed(grid)
  /\ \E e \in EventsNamed("compact") : Len(e.pre.lines_clearing) >= 2

(* C20: as long as random blocks have never been enabled, the current piece
   of a game that is not over is at a valid position: in bounds and on no
   occupied cell of the grid, also right after a compaction. *)
C20_PieceStaysValid ==
  (~ game_over /\ ~ random_blocks_enabled /\ random_block_time = 0) =>
     is_valid_position(grid, current_piece)

(* C21: as long as random blocks have never been enabled, a grid with no
   rows recorded for clearing holds no full row: a full row is pending or
   has been removed. *)
C21_NoFullRowWhenIdle ==
  (lines_clearing = << >> /\ ~ random_blocks_enabled /\ random_block_time = 0) =>
     \A y \in 0..19 : \E x \in 0..9 : grid[y + 1][x + 1] = 0

(* C22: an injection writes no cell of the falling piece: a piece that was
   at a valid position is at a valid position after the injection. *)
C22_InjectionAvoidsPiece ==
  \A e \in EventsNamed("inject") :
     /\ Changed(e.pre.grid, e.post.grid) \cap get_positions(e.pre.current_piece) = {}
     /\ is_valid_position(e.pre.grid, e.pre.current_piece) =>
           is_valid_position(e.post.grid, e.post.current_piece)

(* C23: gravity places the piece.  In a run that is never paused and in
   which update is called again and again, from every state in which the game
   is not over (and the run may still commit a piece) a handler eventually
   writes the falling piece to the grid and then spawns the piece that was
   next, whatever shifts and rotations the player interleaves. *)
C23_GravityPlacesPiece ==
  (~ game_over /\ budget.commits > 0)
     ~> (\E i \in 1..Len(last.log) : \E j \in (i + 1)..Len(last.log) :
            /\ last.log[i].ev = "commit"
            /\ last.log[i].post.grid =
                  WritePiece(last.log[i].pre.grid, last.log[i].pre.current_piece)
            /\ last.log[j].ev = "spawn"
            /\ last.log[j].post.current_piece = last.log[i].pre.next_piece)

(* an update has placed a piece that the player had shifted and turned *)
C23_ShiftedPiecePlacedReached ==
  /\ last.op = "update"
  /\ \E e \in EventsNamed("commit") :
        /\ e.pre.current_piece.x # SpawnX
        /\ Len(e.pre.current_piece.shape) = 4
  /\ EventsNamed("spawn") # {}

====
